---------------------------- MODULE Spec2Model ----------------------------
(***************************************************************************)
(* A model of ProgSnap2Lib: the SQLite event logger (src/logger.py) and    *)
(* the CSV dataset reader (src/progsnap.py).                               *)
(*                                                                         *)
(* The logger's persisted state is the five SQLite tables.  Each logger    *)
(* call opens its own connection(s); a call that issues several            *)
(* transactions (log_event, get_or_set_subject_condition) is modelled as   *)
(* one step per transaction, so that other writers can interleave and a    *)
(* failure can fall between two transactions.                              *)
(***************************************************************************)
EXTENDS Integers, Sequences, FiniteSets, TLC

(***************************************************************************)
(* Bounds of the model.                                                    *)
(***************************************************************************)
\* number of logger calls a run makes
MaxCalls == 3
\* number of concurrent writer processes in SpecConc
NumWriters == 2
\* number of rows of a MainTable.csv
MaxRows == 3
\* number of rows of a CodeStates.csv
MaxSnapshots == 2
\* number of rows of a link table
MaxLinkRows == 2

(***************************************************************************)
(* Values.                                                                 *)
(***************************************************************************)
\* SQL NULL / Python None
NULL == "NULL"
\* code texts a caller may log
CodeTexts == {"a", "b"}
\* the value get(row_dict, 'CodeState') can yield: a text, or None
CodeStateArgs == CodeTexts \cup {NULL}
\* subject ids a caller may pass: None, the empty string, a proper id
SubjectArgs == {NULL, "", "s1"}
\* intervention-group conditions (0/1)
Conditions == {0, 1}
\* problem ids and starter-code texts
ProblemIDs == {"p1", "p2"}
StarterTexts == {"x", "y"}
\* fetchone() returning None: no row id (rowids start at 1)
NoRow == 0

CODE_STATES_TABLE == "CodeStates"
MAIN_TABLE == "MainTable"
METADATA_TABLE == "DatasetMetadata"
PROBLEM_TABLE == "LinkProblem"
SUBJECT_TABLE == "LinkSubject"
TableNames == {CODE_STATES_TABLE, MAIN_TABLE, METADATA_TABLE, PROBLEM_TABLE, SUBJECT_TABLE}

Writers == 1 .. NumWriters

VARIABLES
    MainTable,        \* rows of MainTable: [EventID, CodeStateID, logged]
    CodeStates,       \* rows of CodeStates: [CodeStateID, Code]
    DatasetMetadata,  \* rows of DatasetMetadata in rowid order: [Property, Value]
    LinkProblem,      \* rows of LinkProblem: [ProblemID, StarterCode]
    LinkSubject,      \* rows of LinkSubject: [SubjectID, IsInterventionGroup]
    wr,               \* per writer: position in its call, arguments, result
    calls,            \* number of logger calls started
    assigned,         \* history: every EventID the store assigned, in order
    firstCond,        \* history: condition of the first call per SubjectID
    lastSet,          \* history: text of the latest set_starter_code per ProblemID
    pre,              \* history: CodeStates and MainTable when the latest log_event
                      \*          call began; cleared when a log_event call ends
    fileMain,         \* reader: the rows of MainTable.csv, in file order
    fileMeta,         \* reader: the rows of DatasetMetadata.csv: [Property, Value]
    main_table,       \* reader: self.main_table: [set, rows]
    metadata_table,   \* reader: self.metadata_table: [set, rows]
    rd,               \* reader: the last call, its outcome and the table it returned
    fileCodeStates,   \* reader: the rows of CodeStates/CodeStates.csv: [CodeStateID, Code]
    fileLinks,        \* reader: the tables of LinkTables/, in listing order
    code_states_table, \* reader: self.code_states_table: [set, rows]
    held,             \* caller: the table object the latest call handed over or took
    out,              \* the files save_subset wrote to its target directory
    first             \* history: what each getter returned the first time,
                      \*          whether a caller has changed a table it was handed,
                      \*          and the table the latest set_main_table was given

storeVars == <<MainTable, CodeStates, DatasetMetadata, LinkProblem, LinkSubject>>
histVars == <<calls, assigned, firstCond, lastSet, pre>>
readerVars == <<fileMain, fileMeta, main_table, metadata_table, rd,
                fileCodeStates, fileLinks, code_states_table, held, out, first>>
vars == <<MainTable, CodeStates, DatasetMetadata, LinkProblem, LinkSubject,
          wr, calls, assigned, firstCond, lastSet, pre,
          fileMain, fileMeta, main_table, metadata_table, rd,
          fileCodeStates, fileLinks, code_states_table, held, out, first>>

(***************************************************************************)
(* SQLite semantics used by the logger.                                    *)
(***************************************************************************)
Max(S) == CHOOSE x \in S : \A y \in S : y <= x
Min(S) == CHOOSE x \in S : \A y \in S : x <= y

\* INTEGER PRIMARY KEY without AUTOINCREMENT: the new rowid is one more than
\* the largest rowid now in the table (1 for an empty table).
NextRowid(ids) == IF ids = {} THEN 1 ELSE Max(ids) + 1

\* WHERE col = ?  : a comparison with NULL is never true
SqlEq(x, y) == x # NULL /\ y # NULL /\ x = y

\* mutant: the lookup never finds the text
SelectCodeStateID_NeverHits(code) == NoRow

\* SELECT CodeStateID FROM CodeStates WHERE Code = ? ; fetchone()
SelectCodeStateID(code) ==
    LET hit == {r.CodeStateID : r \in {q \in CodeStates : SqlEq(q.Code, code)}}
    IN  IF hit = {} THEN NoRow ELSE Min(hit)

\* the five rows __add_metadata inserts (Value has TEXT affinity: 1 -> '1')
MetadataDefaults ==
    << [Property |-> "Version", Value |-> "8.0"],
       [Property |-> "IsEventOrderingConsistent", Value |-> "1"],
       [Property |-> "EventOrderScope", Value |-> "Global"],
       [Property |-> "EventOrderScopeColumns", Value |-> ""],
       [Property |-> "CodeStateRepresentation", Value |-> "Sqlite"] >>

\* mutant: the seeding does not look at the row count
AddMetadata_Always(meta) == meta \o MetadataDefaults

\* __add_metadata: seed only when SELECT COUNT(*) is 0
AddMetadata(meta) == IF Len(meta) # 0 THEN meta ELSE meta \o MetadataDefaults

Idle == [pc |-> "idle", op |-> "none", code |-> NULL, bad |-> FALSE, csid |-> NoRow,
         key |-> NULL, val |-> NULL, ret |-> NULL, status |-> "ok"]

NoCall == [cs |-> {}, main |-> {}]

\* a table attribute that is still None
NotLoaded == [set |-> FALSE, rows |-> << >>]
\* a file save_subset has not written
NotWritten == [written |-> FALSE, rows |-> << >>]
NoOutput == [main |-> NotWritten, cs |-> NotWritten, meta |-> NotWritten, links |-> << >>]

\* a database on which SQLiteLogger has been constructed once
StoreInit ==
    /\ MainTable = {}
    /\ CodeStates = {}
    /\ DatasetMetadata = MetadataDefaults
    /\ LinkProblem = {}
    /\ LinkSubject = {}
    /\ wr = [w \in Writers |-> Idle]
    /\ calls = 0
    /\ assigned = << >>
    /\ firstCond = [s \in SubjectArgs \ {NULL} |-> {}]
    /\ lastSet = [p \in ProblemIDs |-> NULL]
    /\ pre = NoCall

\* ProgSnap2Dataset.__init__: nothing is loaded
ReaderNew ==
    /\ main_table = [set |-> FALSE, rows |-> << >>]
    /\ metadata_table = [set |-> FALSE, rows |-> << >>]
    /\ rd = [op |-> "none", status |-> "ok", ret |-> << >>]
    /\ code_states_table = NotLoaded
    /\ held = [rows |-> << >>, of |-> "none"]
    /\ out = NoOutput
    /\ first = [main_table |-> NotLoaded, code_states_table |-> NotLoaded,
                changed |-> FALSE, given |-> NotLoaded]

Init ==
    /\ StoreInit
    /\ fileMain = << >>
    /\ fileMeta = << >>
    /\ fileCodeStates = << >>
    /\ fileLinks = << >>
    /\ ReaderNew

(***************************************************************************)
(* log_event                                                               *)
(***************************************************************************)
\* log_event, up to the SELECT of __get_codestate_id.  `bad` says that
\* row_dict holds a value sqlite3 cannot bind (a list, say) in a MainTable
\* column, which makes the later INSERT INTO MainTable raise.
LogEventLookup(w) ==
    \E code \in CodeStateArgs, bad \in BOOLEAN :
        /\ UNCHANGED readerVars
        /\ wr[w].pc = "idle"
        /\ calls < MaxCalls
        /\ calls' = calls + 1
        /\ LET id == SelectCodeStateID(code)
           IN  wr' = [wr EXCEPT ![w] =
                        [Idle EXCEPT !.pc = IF id = NoRow THEN "insert_code" ELSE "insert_event",
                                     !.op = "log_event", !.code = code, !.bad = bad,
                                     !.csid = id, !.status = "running"]]
        /\ pre' = [cs |-> CodeStates, main |-> MainTable]
        /\ UNCHANGED <<storeVars, assigned, firstCond, lastSet>>

\* __get_codestate_id, result is None: __insert_map(CodeStates, {'Code': code})
InsertCodeState(w) ==
    /\ UNCHANGED readerVars
    /\ wr[w].pc = "insert_code"
    /\ LET id == NextRowid({r.CodeStateID : r \in CodeStates})
       IN  /\ CodeStates' = CodeStates \cup {[CodeStateID |-> id, Code |-> wr[w].code]}
           /\ wr' = [wr EXCEPT ![w].pc = "insert_event", ![w].csid = id]
    /\ UNCHANGED <<MainTable, DatasetMetadata, LinkProblem, LinkSubject, histVars>>

\* __insert_map(MainTable, main_table_map): EventID is deleted from the map,
\* so the store assigns it.  The binding error leaves MainTable as it is.
InsertEvent(w) ==
    /\ UNCHANGED readerVars
    /\ wr[w].pc = "insert_event"
    /\ IF wr[w].bad
       THEN /\ wr' = [wr EXCEPT ![w] = [Idle EXCEPT !.op = "log_event", !.status = "error"]]
            /\ UNCHANGED <<MainTable, assigned>>
       ELSE LET id == NextRowid({r.EventID : r \in MainTable})
            IN  /\ MainTable' = MainTable \cup
                        {[EventID |-> id, CodeStateID |-> wr[w].csid, logged |-> wr[w].code]}
                /\ assigned' = Append(assigned, id)
                /\ wr' = [wr EXCEPT ![w] = [Idle EXCEPT !.op = "log_event"]]
    /\ pre' = NoCall
    /\ UNCHANGED <<CodeStates, DatasetMetadata, LinkProblem, LinkSubject,
                   calls, firstCond, lastSet>>

(***************************************************************************)
(* get_or_set_subject_condition                                            *)
(***************************************************************************)
\* mutant: the SELECT has lost its WHERE clause
SelectSubject_NoWhere(subject_id) == LinkSubject

\* SELECT IsInterventionGroup FROM LinkSubject WHERE SubjectID = ?
SelectSubject(subject_id) == {r \in LinkSubject : SqlEq(r.SubjectID, subject_id)}

\* the guard of the early return: `subject_id is None`
SkipsStorage(subject_id) == subject_id = NULL

\* get_or_set_subject_condition up to the SELECT; it returns at once when
\* the guard holds or a row is found, and goes on to the INSERT otherwise.
SubjectLookup(w) ==
    \E subject_id \in SubjectArgs, condition_to_set \in Conditions :
        /\ UNCHANGED readerVars
        /\ wr[w].pc = "idle"
        /\ calls < MaxCalls
        /\ calls' = calls + 1
        /\ LET call == [Idle EXCEPT !.op = "get_or_set_subject_condition",
                                    !.key = subject_id, !.val = condition_to_set]
               rows == SelectSubject(subject_id)
           IN  IF SkipsStorage(subject_id)
               THEN /\ wr' = [wr EXCEPT ![w] = [call EXCEPT !.ret = condition_to_set]]
                    /\ UNCHANGED firstCond
               ELSE /\ firstCond' = IF firstCond[subject_id] = {}
                                    THEN [firstCond EXCEPT ![subject_id] = {condition_to_set}]
                                    ELSE firstCond
                    /\ IF rows = {}
                       THEN wr' = [wr EXCEPT ![w] =
                                [call EXCEPT !.pc = "insert_subject", !.status = "running"]]
                       ELSE wr' = [wr EXCEPT ![w] =
                                [call EXCEPT !.ret = (CHOOSE r \in rows : TRUE).IsInterventionGroup]]
        /\ UNCHANGED <<storeVars, assigned, lastSet, pre>>

\* the value the call returns after its INSERT
ReturnAfterInsert(condition_to_set) == condition_to_set

\* mutant: SubjectID is no key of the table
PrimaryKeyTaken_NoKey(subject_id) == FALSE
\* SubjectID TEXT PRIMARY KEY: a row with this id exists
PrimaryKeyTaken(subject_id) == SelectSubject(subject_id) # {}

\* __insert_map(LinkSubject, ...): SubjectID is the PRIMARY KEY, so the
\* INSERT raises IntegrityError when another writer has inserted the id.
SubjectInsert(w) ==
    /\ UNCHANGED readerVars
    /\ wr[w].pc = "insert_subject"
    /\ IF PrimaryKeyTaken(wr[w].key)
       THEN /\ wr' = [wr EXCEPT ![w].pc = "idle", ![w].status = "error"]
            /\ UNCHANGED LinkSubject
       ELSE /\ LinkSubject' = LinkSubject \cup
                    {[SubjectID |-> wr[w].key, IsInterventionGroup |-> wr[w].val]}
            /\ wr' = [wr EXCEPT ![w].pc = "idle", ![w].status = "ok",
                                ![w].ret = ReturnAfterInsert(wr[w].val)]
    /\ UNCHANGED <<MainTable, CodeStates, DatasetMetadata, LinkProblem, histVars>>

(***************************************************************************)
(* get_starter_code / set_starter_code                                     *)
(***************************************************************************)
\* INSERT OR IGNORE INTO LinkProblem (ProblemID) VALUES (?)
InsertOrIgnoreProblem(table, problem_id) ==
    IF \E r \in table : SqlEq(r.ProblemID, problem_id)
    THEN table
    ELSE table \cup {[ProblemID |-> problem_id, StarterCode |-> NULL]}

\* mutant: the UPDATE has lost its WHERE clause
UpdateStarterCode_NoWhere(table, problem_id, starter_code) ==
    {[r EXCEPT !.StarterCode = starter_code] : r \in table}

\* UPDATE LinkProblem SET StarterCode = ? WHERE ProblemID = ?
UpdateStarterCode(table, problem_id, starter_code) ==
    {IF SqlEq(r.ProblemID, problem_id) THEN [r EXCEPT !.StarterCode = starter_code] ELSE r
        : r \in table}

\* both statements run on one connection and are committed together
SetStarterCode(w) ==
    \E problem_id \in ProblemIDs, starter_code \in StarterTexts :
        /\ UNCHANGED readerVars
        /\ wr[w].pc = "idle"
        /\ calls < MaxCalls
        /\ calls' = calls + 1
        /\ LinkProblem' = UpdateStarterCode(InsertOrIgnoreProblem(LinkProblem, problem_id),
                                            problem_id, starter_code)
        /\ lastSet' = [lastSet EXCEPT ![problem_id] = starter_code]
        /\ wr' = [wr EXCEPT ![w] = [Idle EXCEPT !.op = "set_starter_code",
                                                !.key = problem_id, !.val = starter_code]]
        /\ UNCHANGED <<MainTable, CodeStates, DatasetMetadata, LinkSubject,
                       assigned, firstCond, pre>>

\* SELECT StarterCode FROM LinkProblem WHERE ProblemID = ? ; fetchone()
SelectStarterCode(problem_id) ==
    LET rows == {r \in LinkProblem : SqlEq(r.ProblemID, problem_id)}
    IN  IF rows = {} THEN NULL ELSE (CHOOSE r \in rows : TRUE).StarterCode

GetStarterCode(w) ==
    \E problem_id \in ProblemIDs :
        /\ UNCHANGED readerVars
        /\ wr[w].pc = "idle"
        /\ calls < MaxCalls
        /\ calls' = calls + 1
        /\ wr' = [wr EXCEPT ![w] = [Idle EXCEPT !.op = "get_starter_code",
                                                !.key = problem_id,
                                                !.ret = SelectStarterCode(problem_id)]]
        /\ UNCHANGED <<storeVars, assigned, firstCond, lastSet, pre>>

(***************************************************************************)
(* __init__ / create_tables, clear_table                                   *)
(***************************************************************************)
\* SQLiteLogger(db_path) on an existing database: every CREATE TABLE IF NOT
\* EXISTS and the CREATE INDEX IF NOT EXISTS find their object and change
\* nothing; __add_metadata seeds an empty DatasetMetadata.
Initialize(w) ==
    /\ UNCHANGED readerVars
    /\ wr[w].pc = "idle"
    /\ calls < MaxCalls
    /\ calls' = calls + 1
    /\ DatasetMetadata' = AddMetadata(DatasetMetadata)
    /\ wr' = [wr EXCEPT ![w] = [Idle EXCEPT !.op = "initialize"]]
    /\ UNCHANGED <<MainTable, CodeStates, LinkProblem, LinkSubject,
                   assigned, firstCond, lastSet, pre>>

\* DELETE FROM table_name
ClearTable(w) ==
    \E table_name \in TableNames :
        /\ UNCHANGED readerVars
        /\ wr[w].pc = "idle"
        /\ calls < MaxCalls
        /\ calls' = calls + 1
        /\ MainTable' = IF table_name = MAIN_TABLE THEN {} ELSE MainTable
        /\ CodeStates' = IF table_name = CODE_STATES_TABLE THEN {} ELSE CodeStates
        /\ DatasetMetadata' = IF table_name = METADATA_TABLE THEN << >> ELSE DatasetMetadata
        /\ LinkProblem' = IF table_name = PROBLEM_TABLE THEN {} ELSE LinkProblem
        /\ LinkSubject' = IF table_name = SUBJECT_TABLE THEN {} ELSE LinkSubject
        /\ wr' = [wr EXCEPT ![w] = [Idle EXCEPT !.op = "clear_table", !.key = table_name]]
        /\ UNCHANGED <<assigned, firstCond, lastSet, pre>>

(***************************************************************************)
(* Specifications.                                                         *)
(***************************************************************************)
\* one writer, every operation of the event store
Next ==
    \E w \in {1} :
        \/ LogEventLookup(w)
        \/ InsertCodeState(w)
        \/ InsertEvent(w)
        \/ SubjectLookup(w)
        \/ SubjectInsert(w)
        \/ SetStarterCode(w)
        \/ GetStarterCode(w)
        \/ Initialize(w)
        \/ ClearTable(w)

Spec == Init /\ [][Next]_vars

\* one writer, log_event calls only
NextLog ==
    \E w \in {1} :
        \/ LogEventLookup(w)
        \/ InsertCodeState(w)
        \/ InsertEvent(w)

SpecLog == Init /\ [][NextLog]_vars

\* one writer, the key-value helpers only
NextKV ==
    \E w \in {1} :
        \/ SubjectLookup(w)
        \/ SubjectInsert(w)
        \/ SetStarterCode(w)
        \/ GetStarterCode(w)

SpecKV == Init /\ [][NextKV]_vars

\* several writers whose log_event calls interleave
NextConc ==
    \E w \in Writers :
        \/ LogEventLookup(w)
        \/ InsertCodeState(w)
        \/ InsertEvent(w)

SpecConc == Init /\ [][NextConc]_vars

\* several writers whose get_or_set_subject_condition calls interleave
NextSubjects ==
    \E w \in Writers :
        \/ SubjectLookup(w)
        \/ SubjectInsert(w)

SpecSubjects == Init /\ [][NextSubjects]_vars

(***************************************************************************)
(* The dataset reader (src/progsnap.py).                                   *)
(*                                                                         *)
(* A text cell of a CSV file is a sequence of tokens, each a word or the   *)
(* separator ";", so that str.split(';') is computed and not assumed.      *)
(* DatasetMetadata.csv always carries its Version row ("8.0") beside the   *)
(* words of the other rows, so read_csv finds no common number or boolean  *)
(* type for the Value column and keeps every cell as text.                 *)
(***************************************************************************)
SEP == ";"
Text(word) == <<word>>
\* what read_csv gives for an empty cell
NaN == <<"<NaN>">>
\* Python's False and None, as get_metadata_property returns them
PyFalse == <<"<False>">>
PyNone == <<"<None>">>
\* the call raised
Raised == <<"<raise>">>
NonText == {NaN, PyFalse, PyNone, Raised}

\* bool(v) of `if self.get_metadata_property(...)`: False, None and '' are
\* false; NaN and every non-empty text (also "False") are true
Truthy(v) == v \notin {PyFalse, PyNone, << >>}

\* the columns of MainTable.csv and the order of their text values
MainColumns == {"EventID", "SubjectID", "ProblemID", "Order", "CodeStateID"}
SubjectIDs == {"A", "B"}
ReaderProblemIDs == {"P", "Q"}
Orders == {1, 2}
SnapshotIDs == {5, 7}
StrOrd == [A |-> 1, B |-> 2, P |-> 1, Q |-> 2]

\* the MainTable.csv files over a set of rows: row i carries EventID i
RowData == [SubjectID : SubjectIDs, ProblemID : ReaderProblemIDs, Order : Orders,
            CodeStateID : SnapshotIDs]
FilesOver(rows) ==
    UNION {{[i \in 1 .. n |-> [EventID |-> i, SubjectID |-> f[i].SubjectID,
                               ProblemID |-> f[i].ProblemID, Order |-> f[i].Order,
                               CodeStateID |-> f[i].CodeStateID]]
              : f \in [1 .. n -> rows]} : n \in 0 .. MaxRows}
\* the files whose rows differ in the given columns only
DefaultCell == [SubjectID |-> "A", ProblemID |-> "P", Order |-> 1, CodeStateID |-> 5]
FilesVarying(columns) ==
    FilesOver({r \in RowData : \A c \in DOMAIN DefaultCell \ columns : r[c] = DefaultCell[c]})

\* the CodeStates.csv files: ids may repeat and ids may be missing
SnapshotTexts == {"x", "y"}
SnapshotRows == [CodeStateID : SnapshotIDs, Code : SnapshotTexts]
CodeStateFiles == UNION {[1 .. n -> SnapshotRows] : n \in 0 .. MaxSnapshots}
\* the files in which a snapshot id always comes with the same text
CodeOf == [n \in SnapshotIDs |-> IF n = 5 THEN "x" ELSE "y"]
MatchedCodeStateFiles ==
    {f \in CodeStateFiles : \A i \in DOMAIN f : f[i].Code = CodeOf[f[i].CodeStateID]}

\* the DatasetMetadata.csv files
MetaRow(property, cell) == <<[Property |-> property, Value |-> cell]>>
MetaFiles ==
    {MetaRow("Version", Text("8.0")) \o flag \o scope \o columns :
        flag \in {<< >>} \cup {MetaRow("IsEventOrderingConsistent", Text(v)) : v \in {"True", "False"}},
        scope \in {<< >>} \cup {MetaRow("EventOrderScope", Text(v)) : v \in {"Global", "Restricted"}},
        columns \in {<< >>} \cup {MetaRow("EventOrderScopeColumns", v) :
                        v \in {<< >>, <<"SubjectID">>, <<"SubjectID", SEP, "ProblemID">>}}}

\* pd.read_csv of the metadata file: an empty cell is read as NaN
ReadCsvCell(cell) == IF cell = << >> THEN NaN ELSE cell
ReadMetadataCsv(file) ==
    [i \in 1 .. Len(file) |->
        [Property |-> file[i].Property, Value |-> ReadCsvCell(file[i].Value)]]

\* get_metadata_property on the loaded metadata table
get_metadata_property(table, property) ==
    LET values == SelectSeq(table, LAMBDA r : r.Property = property)
    IN  IF Len(values) = 1 THEN values[1].Value
        ELSE IF Len(values) > 1 THEN Raised
        ELSE IF property = "IsEventOrderingConsistent" THEN PyFalse
        ELSE IF property = "EventOrderScope" THEN Text("None")
        ELSE IF property = "EventOrderScopeColumns" THEN << >>
        ELSE PyNone

\* self.metadata_table after the first get_metadata_property
MetadataLoaded ==
    IF metadata_table.set THEN metadata_table
    ELSE [set |-> TRUE, rows |-> ReadMetadataCsv(fileMeta)]

\* order_columns.split(';')
RECURSIVE Split(_)
Split(text) ==
    LET seps == {i \in 1 .. Len(text) : text[i] = SEP}
    IN  IF seps = {} THEN <<text>>
        ELSE <<SubSeq(text, 1, Min(seps) - 1)>> \o Split(SubSeq(text, Min(seps) + 1, Len(text)))

\* the labels sort_values gets: a piece names a column when it is one word
IsColumn(piece) == Len(piece) = 1 /\ piece[1] \in MainColumns
Labels(pieces) == [i \in 1 .. Len(pieces) |-> pieces[i][1]]

\* the sort key of a cell: numbers by value, texts by their order
TextColumns == {"SubjectID", "ProblemID"}
KeyOf(row, column) == IF column \in TextColumns THEN StrOrd[row[column]] ELSE row[column]

RECURSIVE KeyLess(_, _, _)
KeyLess(r1, r2, columns) ==
    IF columns = << >> THEN FALSE
    ELSE LET k1 == KeyOf(r1, Head(columns))
             k2 == KeyOf(r2, Head(columns))
         IN  k1 < k2 \/ (k1 = k2 /\ KeyLess(r1, r2, Tail(columns)))

\* sort_values(by=columns) with more than one column: pandas sorts with
\* lexsort_indexer, which is stable (the row at i goes before the row at j
\* when its key is less, or equal and i < j)
LexSort(rows, columns) ==
    LET n == Len(rows)
        Before(i, j) == \/ KeyLess(rows[i], rows[j], columns)
                        \/ (~KeyLess(rows[j], rows[i], columns) /\ i < j)
        pos(i) == 1 + Cardinality({j \in 1 .. n : j # i /\ Before(j, i)})
    IN  [k \in 1 .. n |-> rows[CHOOSE i \in 1 .. n : pos(i) = k]]

\* sort_values(by=[column]) with one column: pandas sorts with the default
\* kind='quicksort' (numpy's introsort / SIMD sort), which is not stable:
\* the result is some arrangement of the rows in ascending key order
QuickSortOutcomes(rows, columns) ==
    LET n == Len(rows)
    IN  {[k \in 1 .. n |-> rows[p[k]]] :
            p \in {q \in Permutations(1 .. n) :
                     \A i, j \in 1 .. n :
                        i < j => ~KeyLess(rows[q[j]], rows[q[i]], columns)}}

\* get_main_table, self.main_table is None: the table read from the file is
\* stored first and then ordered in place; when the ordering raises, the
\* table stays stored as read.
LoadOutcomes(table, meta) ==
    LET failed == {[status |-> "error", rows |-> table]}
        flag == get_metadata_property(meta, "IsEventOrderingConsistent")
        order_scope == get_metadata_property(meta, "EventOrderScope")
        order_columns == get_metadata_property(meta, "EventOrderScopeColumns")
    IN  IF flag = Raised THEN failed
        ELSE IF ~Truthy(flag) THEN {[status |-> "ok", rows |-> table]}
        ELSE IF order_scope = Raised THEN failed
        ELSE IF order_scope = Text("Global")
             THEN {[status |-> "ok", rows |-> t] : t \in QuickSortOutcomes(table, <<"Order">>)}
        ELSE IF order_scope = Text("Restricted")
             THEN IF order_columns \in NonText \/ Len(order_columns) = 0 THEN failed
                  ELSE LET pieces == Split(order_columns)
                       IN  IF \A i \in 1 .. Len(pieces) : IsColumn(pieces[i])
                           THEN {[status |-> "ok",
                                  rows |-> LexSort(table, Labels(pieces) \o <<"Order">>)]}
                           ELSE failed
        ELSE {[status |-> "ok", rows |-> table]}

\* DataFrame.copy(): the copy is a new object, the same object as no cache
DataFrameCopy_SameObject(attribute) == attribute
DataFrameCopy(attribute) == "none"

\* a call of self.get_main_table(): its outcome and the attributes after it
GetMainTableOutcomes ==
    IF main_table.set
    THEN {[status |-> "ok", ret |-> main_table.rows,
           main_table |-> main_table, metadata_table |-> metadata_table]}
    ELSE {[status |-> o.status, ret |-> IF o.status = "ok" THEN o.rows ELSE << >>,
           main_table |-> [set |-> TRUE, rows |-> o.rows],
           metadata_table |-> MetadataLoaded] :
              o \in LoadOutcomes(fileMain, MetadataLoaded.rows)}

\* a call of self.get_code_states_table(): the rows and the attribute after it
GetCodeStatesTableOutcome ==
    IF code_states_table.set THEN code_states_table
    ELSE [set |-> TRUE, rows |-> fileCodeStates]

\* the first content a getter returned
Remember(attribute, rows) ==
    IF first[attribute].set THEN first
    ELSE [first EXCEPT ![attribute] = [set |-> TRUE, rows |-> rows]]

\* get_main_table: returns a copy of self.main_table, loading it first
GetMainTable ==
    /\ \E o \in GetMainTableOutcomes :
            /\ main_table' = o.main_table
            /\ metadata_table' = o.metadata_table
            /\ rd' = [op |-> "get_main_table", status |-> o.status, ret |-> o.ret]
            /\ IF o.status = "ok"
               THEN /\ held' = [rows |-> o.ret, of |-> DataFrameCopy("main_table")]
                    /\ first' = Remember("main_table", o.ret)
               ELSE UNCHANGED <<held, first>>
    /\ UNCHANGED <<storeVars, wr, histVars, fileMain, fileMeta,
                   fileCodeStates, fileLinks, code_states_table, out>>

\* get_code_states_table: returns a copy of self.code_states_table
GetCodeStatesTable ==
    /\ code_states_table' = GetCodeStatesTableOutcome
    /\ rd' = [op |-> "get_code_states_table", status |-> "ok",
              ret |-> GetCodeStatesTableOutcome.rows]
    /\ held' = [rows |-> GetCodeStatesTableOutcome.rows,
                of |-> DataFrameCopy("code_states_table")]
    /\ first' = Remember("code_states_table", GetCodeStatesTableOutcome.rows)
    /\ UNCHANGED <<storeVars, wr, histVars, fileMain, fileMeta,
                   fileCodeStates, fileLinks, main_table, metadata_table, out>>

\* the caller drops the first row of the table object it holds; an
\* attribute of the reader that is the same object loses the row too
CallerMutates ==
    /\ held.rows # << >>
    /\ held' = [held EXCEPT !.rows = Tail(held.rows)]
    /\ main_table' = IF held.of = "main_table"
                     THEN [main_table EXCEPT !.rows = Tail(held.rows)] ELSE main_table
    /\ code_states_table' = IF held.of = "code_states_table"
                            THEN [code_states_table EXCEPT !.rows = Tail(held.rows)]
                            ELSE code_states_table
    /\ first' = [first EXCEPT !.changed = TRUE]
    /\ UNCHANGED <<storeVars, wr, histVars, fileMain, fileMeta,
                   fileCodeStates, fileLinks, metadata_table, rd, out>>

\* another process rewrites a file of the dataset directory without its
\* first row
FileChanges ==
    /\ \/ fileMain # << >> /\ fileMain' = Tail(fileMain) /\ UNCHANGED fileCodeStates
       \/ fileCodeStates # << >> /\ fileCodeStates' = Tail(fileCodeStates)
                                 /\ UNCHANGED fileMain
    /\ UNCHANGED <<storeVars, wr, histVars, fileMeta, fileLinks, main_table,
                   metadata_table, code_states_table, rd, held, out, first>>

\* a reader constructed on a dataset directory
InitReader ==
    /\ StoreInit
    /\ fileMain \in FilesVarying({"SubjectID", "ProblemID", "Order"})
    /\ fileMeta \in MetaFiles
    /\ fileCodeStates = << >>
    /\ fileLinks = << >>
    /\ ReaderNew

NextReader == GetMainTable

SpecReader == InitReader /\ [][NextReader]_vars

\* the metadata files of the other reader specifications: no ordering
\* declared, Global, and Restricted by SubjectID
PlainMeta == MetaRow("Version", Text("8.0"))
OrderedMeta(scope) ==
    PlainMeta \o MetaRow("IsEventOrderingConsistent", Text("True"))
              \o MetaRow("EventOrderScope", Text(scope))
              \o MetaRow("EventOrderScopeColumns", <<"SubjectID">>)
SomeMetaFiles == {PlainMeta, OrderedMeta("Global"), OrderedMeta("Restricted")}

\* __to_one: None for no element, the element for one, an exception for more
to_one(lst) ==
    IF Len(lst) = 0 THEN [status |-> "ok", ret |-> PyNone]
    ELSE IF Len(lst) > 1 THEN [status |-> "error", ret |-> Raised]
    ELSE [status |-> "ok", ret |-> lst[1]]

\* get_code_for_id on the loaded code-states table: the Code cells of the
\* rows with that CodeStateID, through __to_one
get_code_for_id(code_states, code_state_id) ==
    LET code == SelectSeq(code_states, LAMBDA r : r.CodeStateID = code_state_id)
    IN  to_one([i \in 1 .. Len(code) |-> Text(code[i].Code)])

\* `PS2.EventID == row_id`: Python compares the column's name, a str, with
\* the argument, a number, and gives the bool False
EventIDPredicate(row_id) == PyFalse

\* events[key] with a scalar key selects the column labelled key and raises
\* KeyError when the table has no such column
HasColumn(key) == \E column \in MainColumns : key = Text(column)

\* get_code_for_event_id: the lookup events[False] raises for every row_id
\* and every main table, after get_main_table has loaded and cached it
GetCodeForEventId ==
    /\ \E row_id \in 1 .. MaxRows + 1, o \in GetMainTableOutcomes :
            /\ main_table' = o.main_table
            /\ metadata_table' = o.metadata_table
            /\ rd' = [op |-> "get_code_for_event_id", arg |-> row_id,
                      status |-> IF o.status = "ok" /\ HasColumn(EventIDPredicate(row_id))
                                 THEN "ok" ELSE "error",
                      ret |-> Raised]
    /\ UNCHANGED <<storeVars, wr, histVars, fileMain, fileMeta, fileCodeStates,
                   fileLinks, code_states_table, held, out, first>>

\* mutant: the distinct values in ascending order (numpy's unique)
Unique_Sorted(values) ==
    LET S == {values[i] : i \in DOMAIN values}
    IN  [k \in 1 .. Cardinality(S) |->
            CHOOSE v \in S : Cardinality({u \in S : u < v}) = k - 1]

\* Series.unique(): the distinct values in the order of their first occurrence
RECURSIVE Unique(_)
Unique(values) ==
    IF values = << >> THEN << >>
    ELSE LET rest == Unique(SubSeq(values, 1, Len(values) - 1))
             last == values[Len(values)]
         IN  IF \E i \in DOMAIN rest : rest[i] = last THEN rest ELSE Append(rest, last)

\* get_trace: the code of each distinct CodeStateID of the rows matching both
\* ids; the code-states table is loaded when the first id is looked up
GetTrace ==
    /\ \E subject_id \in SubjectIDs, problem_id \in ReaderProblemIDs, o \in GetMainTableOutcomes :
            LET rows == SelectSeq(o.ret, LAMBDA r : r.SubjectID = subject_id
                                                     /\ r.ProblemID = problem_id)
                ids == Unique([i \in 1 .. Len(rows) |-> rows[i].CodeStateID])
                code_states == GetCodeStatesTableOutcome
                codes == [i \in 1 .. Len(ids) |-> get_code_for_id(code_states.rows, ids[i])]
            IN  /\ main_table' = o.main_table
                /\ metadata_table' = o.metadata_table
                /\ code_states_table' = IF o.status = "ok" /\ ids # << >>
                                        THEN code_states ELSE code_states_table
                /\ rd' = [op |-> "get_trace", arg |-> <<subject_id, problem_id>>,
                          status |-> IF o.status = "ok"
                                        /\ \A i \in DOMAIN codes : codes[i].status = "ok"
                                     THEN "ok" ELSE "error",
                          ret |-> IF o.status = "ok"
                                  THEN [i \in 1 .. Len(ids) |-> codes[i].ret] ELSE << >>]
    /\ UNCHANGED <<storeVars, wr, histVars, fileMain, fileMeta, fileCodeStates,
                   fileLinks, held, out, first>>

\* a reader that is asked for the code of events and for traces
InitQuery ==
    /\ StoreInit
    /\ fileMain \in FilesVarying({"SubjectID", "CodeStateID"})
    /\ fileMeta \in {PlainMeta, OrderedMeta("Restricted")}
    /\ fileCodeStates \in MatchedCodeStateFiles
    /\ fileLinks = << >>
    /\ ReaderNew

NextQuery ==
    \/ GetCodeForEventId
    \/ GetTrace

SpecQuery == InitQuery /\ [][NextQuery]_vars

\* set_main_table: the reader keeps a copy of the caller's table
SetMainTable ==
    /\ \E t \in FilesVarying({}) :
            /\ main_table' = [set |-> TRUE, rows |-> t]
            /\ held' = [rows |-> t, of |-> DataFrameCopy("main_table")]
            /\ rd' = [op |-> "set_main_table", status |-> "ok", ret |-> << >>]
            /\ first' = [first EXCEPT !.given = [set |-> TRUE, rows |-> t]]
    /\ UNCHANGED <<storeVars, wr, histVars, fileMain, fileMeta, fileCodeStates,
                   fileLinks, metadata_table, code_states_table, out>>

\* the row filters a caller passes to save_subset as main_table_filterer
Filters == {"keep_all", "keep_none", "subject_A", "snapshot_7"}
Passes(filter, row) ==
    CASE filter = "keep_all" -> TRUE
      [] filter = "keep_none" -> FALSE
      [] filter = "subject_A" -> row.SubjectID = "A"
      [] filter = "snapshot_7" -> row.CodeStateID = 7
main_table_filterer(filter, table) == SelectSeq(table, LAMBDA r : Passes(filter, r))

\* mutant: every snapshot is taken
isin_Everything(code_state_id, code_state_ids) == TRUE
\* Series.isin(code_state_ids)
isin(code_state_id, code_state_ids) ==
    \E i \in DOMAIN code_state_ids : code_state_ids[i] = code_state_id

\* the link tables of LinkTables/: the column labels and the rows.  The
\* labels for which col.endswith('ID') holds are listed, not computed.
EndsWithID == {"EventID", "SubjectID", "ProblemID", "CodeStateID", "TeacherID"}
LinkTable(name, columns, rows) == [name |-> name, columns |-> columns, rows |-> rows]
SubjectKeys == <<[SubjectID |-> "A", TeacherID |-> "T"], [SubjectID |-> "B", TeacherID |-> "T"]>>
SubjectProblemKeys ==
    <<[SubjectID |-> "A", ProblemID |-> "P", Note |-> "n"],
      [SubjectID |-> "A", ProblemID |-> "Q", Note |-> "n"],
      [SubjectID |-> "B", ProblemID |-> "P", Note |-> "n"],
      [SubjectID |-> "B", ProblemID |-> "Q", Note |-> "n"]>>
\* the link tables of up to MaxLinkRows of these rows, each key at most once
RowsAt(rows, S) ==
    [k \in 1 .. Cardinality(S) |->
        rows[CHOOSE i \in S : Cardinality({j \in S : j < i}) = k - 1]]
TablesOver(rows) ==
    {RowsAt(rows, S) : S \in {T \in SUBSET DOMAIN rows : Cardinality(T) <= MaxLinkRows}}
SubjectLinks ==
    {LinkTable("Subject.csv", <<"SubjectID", "TeacherID">>, rows) :
        rows \in TablesOver(SubjectKeys)}
SubjectProblemLinks ==
    {LinkTable("SubjectProblem.csv", <<"SubjectID", "ProblemID", "Note">>, rows) :
        rows \in TablesOver(SubjectProblemKeys)}
TeacherLink == LinkTable("Teacher.csv", <<"TeacherID">>, <<[TeacherID |-> "T"]>>)
LinkDirs ==
    {<< >>, <<TeacherLink>>}
        \cup {<<t>> : t \in SubjectLinks \cup SubjectProblemLinks}
        \cup {<<t, u>> : t \in {v \in SubjectLinks : Len(v.rows) = 1},
                         u \in {v \in SubjectProblemLinks : Len(v.rows) = 1}}

\* indexify: a tuple for several values, the value itself for one
indexify(x) == IF Len(x) > 1 THEN x ELSE x[1]
IDValues(row, columns) == [i \in 1 .. Len(columns) |-> row[columns[i]]]

\* the index of main_table.groupby(columns).apply(lambda x: True): the
\* distinct keys of the rows, scalars for one column and tuples for several
distinct_ids(main, columns) ==
    {indexify(IDValues(main[i], columns)) : i \in DOMAIN main}

\* mutant: a link row is kept when each of its ids occurs in some row
to_keep_PerColumn(row, main, columns) ==
    \A i \in DOMAIN columns : \E j \in DOMAIN main : main[j][columns[i]] = row[columns[i]]
\* `indexify(list(row)) in distinct_ids`: membership in the index
to_keep(row, main, columns) == indexify(IDValues(row, columns)) \in distinct_ids(main, columns)

\* the body of the loop over the link tables: groupby([]) raises when the
\* link table shares no ID column with the main table; link_table[[]], for
\* a link table without rows, selects no column
FilterLinkTable(link_table, main) ==
    LET columns == SelectSeq(link_table.columns,
                             LAMBDA col : col \in EndsWithID /\ col \in MainColumns)
    IN  IF columns = << >> THEN [status |-> "error", table |-> link_table]
        ELSE [status |-> "ok",
              table |-> LinkTable(link_table.name,
                            IF link_table.rows = << >> THEN << >> ELSE link_table.columns,
                            SelectSeq(link_table.rows,
                                      LAMBDA row : to_keep(row, main, columns)))]

\* the link tables written until the loop ends or raises
RECURSIVE CopyLinkTables(_, _)
CopyLinkTables(link_tables, main) ==
    IF link_tables = << >> THEN [status |-> "ok", written |-> << >>]
    ELSE LET this == FilterLinkTable(Head(link_tables), main)
             rest == CopyLinkTables(Tail(link_tables), main)
         IN  IF this.status = "error" THEN [status |-> "error", written |-> << >>]
             ELSE [status |-> rest.status, written |-> <<this.table>> \o rest.written]

\* save_subset into a new directory: the main table, the code states and
\* the metadata are written in this order, then the link tables; a step
\* that raises leaves what was written before it.  self.metadata_table is
\* None, and to_csv on it raises, unless a metadata property was read.
SaveSubset ==
    /\ \E filter \in Filters, copy_link_tables \in BOOLEAN, o \in GetMainTableOutcomes :
            LET main == main_table_filterer(filter, o.ret)
                code_state_ids == Unique([i \in 1 .. Len(main) |-> main[i].CodeStateID])
                code_states == GetCodeStatesTableOutcome
                kept == SelectSeq(code_states.rows,
                                  LAMBDA r : isin(r.CodeStateID, code_state_ids))
                links == CopyLinkTables(fileLinks, main)
            IN  /\ main_table' = o.main_table
                /\ metadata_table' = o.metadata_table
                /\ rd' = [op |-> "save_subset",
                          arg |-> [filter |-> filter, copy_link_tables |-> copy_link_tables],
                          status |-> IF /\ o.status = "ok"
                                        /\ o.metadata_table.set
                                        /\ (copy_link_tables => links.status = "ok")
                                     THEN "ok" ELSE "error",
                          ret |-> << >>]
                /\ IF o.status = "ok"
                   THEN /\ code_states_table' = code_states
                        /\ out' = [main |-> [written |-> TRUE, rows |-> main],
                                   cs |-> [written |-> TRUE, rows |-> kept],
                                   meta |-> IF o.metadata_table.set
                                            THEN [written |-> TRUE,
                                                  rows |-> o.metadata_table.rows]
                                            ELSE NotWritten,
                                   links |-> IF o.metadata_table.set /\ copy_link_tables
                                             THEN links.written ELSE << >>]
                   ELSE /\ out' = NoOutput
                        /\ UNCHANGED code_states_table
    /\ UNCHANGED <<storeVars, wr, histVars, fileMain, fileMeta, fileCodeStates,
                   fileLinks, held, first>>

\* a reader whose dataset is exported: datasets that differ in their
\* snapshots, and datasets that differ in their link tables
InitSubset ==
    /\ StoreInit
    /\ fileMeta = PlainMeta
    /\ \/ /\ fileMain \in FilesVarying({"SubjectID", "CodeStateID"})
          /\ fileCodeStates \in MatchedCodeStateFiles
          /\ fileLinks = << >>
       \/ /\ fileMain \in FilesVarying({"SubjectID", "ProblemID"})
          /\ fileCodeStates = << >>
          /\ fileLinks \in LinkDirs
    /\ ReaderNew

NextSubset == SaveSubset

SpecSubset == InitSubset /\ [][NextSubset]_vars

\* a reader whose main table is replaced by the caller: the file's rows
\* are of subject B, the rows of the caller's tables of subject A
InitReplace ==
    /\ StoreInit
    /\ fileMain \in FilesOver({[DefaultCell EXCEPT !.SubjectID = "B"]})
    /\ fileMeta \in {PlainMeta, OrderedMeta("Restricted")}
    /\ fileCodeStates = <<[CodeStateID |-> 5, Code |-> "x"]>>
    /\ fileLinks = << >>
    /\ ReaderNew

NextReplace ==
    \/ SetMainTable
    \/ GetMainTable
    \/ CallerMutates
    \/ SaveSubset

SpecReplace == InitReplace /\ [][NextReplace]_vars

\* a reader whose callers mutate what they got while the files change
InitCache ==
    /\ StoreInit
    /\ fileMain \in FilesVarying({"Order"})
    /\ fileMeta \in {PlainMeta, OrderedMeta("Global")}
    /\ fileCodeStates \in {f \in CodeStateFiles : \A i \in DOMAIN f : f[i].Code = "x"}
    /\ fileLinks = << >>
    /\ ReaderNew

NextCache ==
    \/ GetMainTable
    \/ GetCodeStatesTable
    \/ CallerMutates
    \/ FileChanges

SpecCache == InitCache /\ [][NextCache]_vars

(***************************************************************************)
(* Properties of the event store.                                          *)
(***************************************************************************)
EventsWithText == {e \in MainTable : e.logged # NULL}
RowsHolding(text) == {r \in CodeStates : r.Code = text}

\* C1: with one writer and log_event calls only, no two CodeStates rows hold
\* the same code text, two events logged with the same code text store the
\* same CodeStateID, and the events' distinct CodeStateIDs are as many as the
\* distinct code texts logged.
C1_DedupSingleWriter ==
    /\ \A r1, r2 \in CodeStates :
            (r1.Code # NULL /\ r1.Code = r2.Code) => r1.CodeStateID = r2.CodeStateID
    /\ \A e1, e2 \in EventsWithText :
            e1.logged = e2.logged => e1.CodeStateID = e2.CodeStateID
    /\ Cardinality({e.CodeStateID : e \in EventsWithText})
            = Cardinality({e.logged : e \in EventsWithText})

\* "print(1)" twice, then "print(2)": three events, two snapshot ids
C1_Witness ==
    /\ Cardinality(EventsWithText) = 3
    /\ Cardinality({e.logged : e \in EventsWithText}) = 2
    /\ Cardinality({e.CodeStateID : e \in EventsWithText}) = 2

\* C2: every event row references a CodeStates row that exists and still
\* holds the code text the event was logged with.
C2_EventsReferenceSnapshots ==
    \A e \in MainTable :
        \E r \in CodeStates : r.CodeStateID = e.CodeStateID /\ r.Code = e.logged

\* C3: every EventID the store assigns is greater than all it assigned before.
C3_EventIDsNeverReused ==
    \A i, j \in 1 .. Len(assigned) : i < j => assigned[i] < assigned[j]

\* C4: the first get_or_set_subject_condition call for a SubjectID that
\* reaches storage creates the row with its condition and returns it; every
\* later call for that id returns that first condition, and the table keeps
\* exactly that one row for the id.
C4_FirstWriteWins ==
    /\ \A s \in DOMAIN firstCond :
          IF firstCond[s] = {} \/ (wr[1].pc = "insert_subject" /\ wr[1].key = s)
          THEN {r \in LinkSubject : r.SubjectID = s} = {}
          ELSE {r.IsInterventionGroup : r \in {q \in LinkSubject : q.SubjectID = s}}
                    = firstCond[s]
               /\ Cardinality({r \in LinkSubject : r.SubjectID = s}) = 1
    /\ (wr[1].op = "get_or_set_subject_condition" /\ wr[1].pc = "idle" /\ wr[1].key # NULL)
          => (wr[1].status = "ok" /\ firstCond[wr[1].key] = {wr[1].ret})

\* a later call passed another condition and got the first one back
C4_Witness ==
    /\ wr[1].op = "get_or_set_subject_condition"
    /\ wr[1].pc = "idle"
    /\ wr[1].key = "s1"
    /\ wr[1].ret # wr[1].val

\* C5: when a log_event call of the one writer fails, CodeStates and
\* MainTable are left as they were when the call began (pre holds them
\* during the call).
C5_FailedLogEventChangesNothing ==
    [][\A w \in Writers :
          (wr[w].op = "log_event" /\ wr[w].status = "running" /\ wr'[w].status = "error")
              => (CodeStates' = pre.cs /\ MainTable' = pre.main)]_vars

MetadataProperties == {MetadataDefaults[i].Property : i \in 1 .. Len(MetadataDefaults)}
MetadataCount(meta, property) ==
    Cardinality({i \in 1 .. Len(meta) : meta[i].Property = property})

\* C6: constructing the store again changes no row of MainTable, CodeStates,
\* LinkProblem or LinkSubject, leaves a non-empty DatasetMetadata as it is,
\* seeds an empty one with the five defaults, and leaves every one of the five
\* properties in DatasetMetadata exactly once.
C6_InitializeIdempotent ==
    [][(wr'[1].op = "initialize" /\ calls' # calls) =>
            /\ <<MainTable, CodeStates, LinkProblem, LinkSubject>>'
                    = <<MainTable, CodeStates, LinkProblem, LinkSubject>>
            /\ Len(DatasetMetadata) # 0 => DatasetMetadata' = DatasetMetadata
            /\ Len(DatasetMetadata) = 0 => DatasetMetadata' = MetadataDefaults
            /\ \A property \in MetadataProperties :
                    MetadataCount(DatasetMetadata', property) = 1
            /\ Len(DatasetMetadata') = 5]_vars

\* the store was constructed again over logged events
C6_Witness ==
    /\ wr[1].op = "initialize"
    /\ MainTable # {}
    /\ CodeStates # {}
    /\ DatasetMetadata = MetadataDefaults

\* C7: get_starter_code(p) returns the text of the latest set_starter_code(p, .)
\* and None for a ProblemID never set; LinkProblem holds exactly one row for
\* each ProblemID ever set and no other row.
C7_StarterCodeUpsert ==
    /\ \A p \in ProblemIDs :
          {r \in LinkProblem : r.ProblemID = p}
              = IF lastSet[p] = NULL THEN {}
                ELSE {[ProblemID |-> p, StarterCode |-> lastSet[p]]}
    /\ Cardinality(LinkProblem) = Cardinality({p \in ProblemIDs : lastSet[p] # NULL})
    /\ wr[1].op = "get_starter_code" => wr[1].ret = lastSet[wr[1].key]

\* both problems were set, and get_starter_code returned a stored text
C7_Witness ==
    /\ wr[1].op = "get_starter_code"
    /\ wr[1].ret # NULL
    /\ \A p \in ProblemIDs : lastSet[p] # NULL

\* C8: with interleaving writers the same code text can be inserted by
\* every writer that missed the lookup, and by no one else: a text is held
\* by at most as many rows as there are writers.
C8_DuplicatesOnlyFromRacingWriters ==
    \A text \in CodeTexts : Cardinality(RowsHolding(text)) <= NumWriters

\* two rows hold the same code text under different ids
C8_Witness ==
    \E r1, r2 \in CodeStates :
        r1.Code # NULL /\ r1.Code = r2.Code /\ r1.CodeStateID # r2.CodeStateID

\* C9: a get_or_set_subject_condition call with subject_id None or '' goes
\* to no storage step, returns condition_to_set, and LinkSubject gets no row
\* for such an id.
C9_EmptySubjectSkipsStorage ==
    /\ \A r \in LinkSubject : r.SubjectID \notin {NULL, ""}
    /\ (wr[1].op = "get_or_set_subject_condition" /\ wr[1].key \in {NULL, ""})
          => (wr[1].pc = "idle" /\ wr[1].ret = wr[1].val)

\* C19: log_event calls that omit CodeState add at most one snapshot row
\* for the absent code, and the events they log all store the same
\* CodeStateID.
C19_AbsentCodeStateOneSnapshot ==
    /\ Cardinality(RowsHolding(NULL)) <= 1
    /\ \A e1, e2 \in MainTable :
            (e1.logged = NULL /\ e2.logged = NULL) => e1.CodeStateID = e2.CodeStateID

ProperSubjects == SubjectArgs \ {NULL, ""}
SubjectRows(subject_id) == {r \in LinkSubject : r.SubjectID = subject_id}
Called(w, subject_id) ==
    /\ wr[w].op = "get_or_set_subject_condition"
    /\ wr[w].pc = "idle"
    /\ wr[w].key = subject_id

\* C20: with writers interleaving get_or_set_subject_condition, LinkSubject
\* holds at most one row for a non-empty SubjectID; a call that returned
\* has returned the condition stored in that row; a call that failed has
\* lost the insert to the writer of that row and has returned nothing.
C20_RacingSubjectsAgree ==
    \A subject_id \in ProperSubjects :
        /\ Cardinality(SubjectRows(subject_id)) <= 1
        /\ \A w \in Writers :
              Called(w, subject_id) =>
                  /\ SubjectRows(subject_id) # {}
                  /\ wr[w].status \in {"ok", "error"}
                  /\ wr[w].status = "ok" =>
                        \A r \in SubjectRows(subject_id) : r.IsInterventionGroup = wr[w].ret
                  /\ wr[w].status = "error" => wr[w].ret = NULL

\* a writer lost the race: its call failed, and the row holds the other
\* writer's condition, which that writer's call returned
C20_Witness ==
    \E w1, w2 \in Writers :
        /\ Called(w1, "s1") /\ wr[w1].status = "error"
        /\ Called(w2, "s1") /\ wr[w2].status = "ok"
        /\ wr[w2].ret # wr[w1].val

(***************************************************************************)
(* Properties of the dataset reader.                                       *)
(***************************************************************************)
DeclaredFlag == get_metadata_property(ReadMetadataCsv(fileMeta), "IsEventOrderingConsistent")
DeclaredScope == get_metadata_property(ReadMetadataCsv(fileMeta), "EventOrderScope")
DeclaredColumns == get_metadata_property(ReadMetadataCsv(fileMeta), "EventOrderScopeColumns")
DeclaredColumnsUsable ==
    /\ DeclaredColumns \notin NonText
    /\ Len(DeclaredColumns) > 0
    /\ \A i \in 1 .. Len(Split(DeclaredColumns)) : IsColumn(Split(DeclaredColumns)[i])

\* C10: when the metadata declares the ordering consistent, get_main_table
\* returns the file's rows stably sorted, by Order for scope Global and by
\* the declared scope columns and then Order for scope Restricted: equal keys
\* keep their file order and no row is added or lost.
C10_StablySorted ==
    (rd.op = "get_main_table" /\ DeclaredFlag = Text("True")) =>
        /\ DeclaredScope = Text("Global") =>
              (rd.status = "ok" /\ rd.ret = LexSort(fileMain, <<"Order">>))
        /\ (DeclaredScope = Text("Restricted") /\ DeclaredColumnsUsable) =>
              (rd.status = "ok"
               /\ rd.ret = LexSort(fileMain, Labels(Split(DeclaredColumns)) \o <<"Order">>))

\* C11: when the ordering flag is false, absent from the metadata file or
\* present with the value False, get_main_table succeeds and returns the
\* file's rows in file order, whatever EventOrderScope says.
C11_FalseFlagKeepsFileOrder ==
    (rd.op = "get_main_table" /\ DeclaredFlag \in {PyFalse, Text("False")}) =>
        (rd.status = "ok" /\ rd.ret = fileMain)

\* C12: with consistent ordering declared, scope Restricted and the scope
\* columns empty (the property absent or its cell empty), every
\* get_main_table call on the reader fails, the first and any later one.
C12_RestrictedWithoutColumnsAlwaysFails ==
    (/\ rd.op = "get_main_table"
     /\ DeclaredFlag = Text("True")
     /\ DeclaredScope = Text("Restricted")
     /\ DeclaredColumns \in {<< >>, NaN}) => rd.status = "error"

\* C13: once get_main_table or get_code_states_table has returned, every
\* later call of it on the same reader returns the content the first call
\* returned, whatever the callers did to the tables they were handed and
\* however the files changed since; the cached tables hold that content too.
C13_CachedCopies ==
    /\ (rd.op = "get_main_table" /\ rd.status = "ok") =>
            (first.main_table.set /\ rd.ret = first.main_table.rows)
    /\ rd.op = "get_code_states_table" =>
            (first.code_states_table.set /\ rd.ret = first.code_states_table.rows)
    /\ first.main_table.set => main_table = first.main_table
    /\ first.code_states_table.set => code_states_table = first.code_states_table

\* a call returned the first content again although the caller had changed
\* the table it held and the file on disk had changed
C13_Witness ==
    /\ rd.op = "get_main_table"
    /\ rd.status = "ok"
    /\ rd.ret = first.main_table.rows
    /\ first.changed
    /\ Len(rd.ret) > Len(fileMain)
    /\ first.code_states_table.set
    /\ Len(first.code_states_table.rows) > Len(fileCodeStates)

\* the rows of the cached main table with the given EventID
EventRows(row_id) == SelectSeq(main_table.rows, LAMBDA r : r.EventID = row_id)
\* the code of a snapshot id in the cached code-states table
CodeFor(code_state_id) == get_code_for_id(GetCodeStatesTableOutcome.rows, code_state_id)

\* C14: get_code_for_event_id(eventId) returns the code text of the snapshot
\* that the row with that EventID references, None when no row has that
\* EventID, and fails when several rows have it.
C14_CodeForEventId ==
    rd.op = "get_code_for_event_id" =>
        IF Len(EventRows(rd.arg)) = 0 THEN rd.status = "ok" /\ rd.ret = PyNone
        ELSE IF Len(EventRows(rd.arg)) > 1 THEN rd.status = "error"
        ELSE /\ rd.status = CodeFor(EventRows(rd.arg)[1].CodeStateID).status
             /\ rd.ret = CodeFor(EventRows(rd.arg)[1].CodeStateID).ret

\* the CodeStateIDs of the cached main table's rows that match the call
TraceIDs ==
    LET rows == SelectSeq(main_table.rows,
                          LAMBDA r : r.SubjectID = rd.arg[1] /\ r.ProblemID = rd.arg[2])
    IN  [i \in 1 .. Len(rows) |-> rows[i].CodeStateID]
FirstAt(ids, id) == Min({i \in DOMAIN ids : ids[i] = id})
DistinctIn(ids) == {ids[i] : i \in DOMAIN ids}

\* C15: get_trace returns one entry per distinct CodeStateID of the matching
\* rows of the ordered main table, the entry of an id standing at the rank of
\* the id's first occurrence and holding the snapshot's code text (None when
\* CodeStates.csv has no such snapshot); the call fails exactly when some
\* such id has several snapshots.
C15_TraceDistinctInOrder ==
    rd.op = "get_trace" =>
        /\ rd.status = "ok" <=>
                \A id \in DistinctIn(TraceIDs) : CodeFor(id).status = "ok"
        /\ rd.status = "ok" =>
            /\ Len(rd.ret) = Cardinality(DistinctIn(TraceIDs))
            /\ \A id \in DistinctIn(TraceIDs) :
                  rd.ret[1 + Cardinality({other \in DistinctIn(TraceIDs) :
                                FirstAt(TraceIDs, other) < FirstAt(TraceIDs, id)})]
                      = CodeFor(id).ret

\* rows with the ids 7, 7, 5 gave the texts of 7 and 5, in that order
C15_Witness ==
    /\ rd.op = "get_trace"
    /\ rd.status = "ok"
    /\ TraceIDs = <<7, 7, 5>>
    /\ rd.ret = <<Text("y"), Text("x")>>

\* C16: save_subset with a row filter writes, as main table, the rows of
\* the reader's main table that pass the filter, in their order, and, as
\* code-states table, the snapshots whose CodeStateID a written row
\* references, in their order; a main table or code-states table the reader
\* had cached before the call is the same after it.
C16_SubsetRowsAndSnapshots ==
    [][rd'.op = "save_subset" =>
          /\ out'.main = [written |-> TRUE,
                          rows |-> SelectSeq(main_table'.rows,
                                        LAMBDA r : Passes(rd'.arg.filter, r))]
          /\ out'.cs = [written |-> TRUE,
                        rows |-> SelectSeq(code_states_table'.rows,
                                    LAMBDA s : \E i \in DOMAIN out'.main.rows :
                                        out'.main.rows[i].CodeStateID = s.CodeStateID)]
          /\ main_table.set => main_table' = main_table
          /\ code_states_table.set => code_states_table' = code_states_table]_vars

\* an export that dropped a row and a snapshot and kept others
C16_Witness ==
    /\ rd.op = "save_subset"
    /\ out.main.rows # << >>
    /\ Len(out.main.rows) < Len(main_table.rows)
    /\ out.cs.rows # << >>
    /\ Len(out.cs.rows) < Len(code_states_table.rows)

\* the ID columns a link table shares with the main table
SharedIDColumns(link_table) ==
    {link_table.columns[i] : i \in DOMAIN link_table.columns} \cap EndsWithID \cap MainColumns
\* a written main-table row carries the link row's value in every shared ID column
Survives(link_row, link_table) ==
    \E i \in DOMAIN out.main.rows :
        \A column \in SharedIDColumns(link_table) :
            out.main.rows[i][column] = link_row[column]

\* C17: save_subset with copy_link_tables writes every link table that
\* shares an ID column with the main table, holding exactly the link rows
\* whose shared-ID values, taken together, are those of one written
\* main-table row.
C17_LinkRowsByWholeKey ==
    (/\ rd.op = "save_subset"
     /\ rd.arg.copy_link_tables
     /\ \A k \in DOMAIN fileLinks : SharedIDColumns(fileLinks[k]) # {}) =>
        /\ rd.status = "ok"
        /\ Len(out.links) = Len(fileLinks)
        /\ \A k \in DOMAIN fileLinks :
              /\ out.links[k].name = fileLinks[k].name
              /\ out.links[k].rows =
                    SelectSeq(fileLinks[k].rows, LAMBDA row : Survives(row, fileLinks[k]))

\* a link table with two ID columns lost a row whose SubjectID and
\* ProblemID both occur in written rows, but in no row together, and kept
\* another row
C17_Witness ==
    /\ rd.op = "save_subset"
    /\ rd.status = "ok"
    /\ \E k \in DOMAIN out.links :
          /\ Cardinality(SharedIDColumns(fileLinks[k])) = 2
          /\ out.links[k].rows # << >>
          /\ \E j \in DOMAIN fileLinks[k].rows :
                LET row == fileLinks[k].rows[j]
                IN  /\ ~Survives(row, fileLinks[k])
                    /\ \E i \in DOMAIN out.main.rows : out.main.rows[i].SubjectID = row.SubjectID
                    /\ \E i \in DOMAIN out.main.rows : out.main.rows[i].ProblemID = row.ProblemID

\* C18: once set_main_table(t) was called, get_main_table returns t's rows,
\* whatever the caller did to t since, and save_subset completes, writing
\* the rows of t that pass the filter and the dataset's metadata as the
\* metadata file has it.
C18_ReplacedTableIsExported ==
    first.given.set =>
        /\ rd.op = "get_main_table" =>
                (rd.status = "ok" /\ rd.ret = first.given.rows)
        /\ rd.op = "save_subset" =>
                /\ rd.status = "ok"
                /\ out.main = [written |-> TRUE,
                               rows |-> SelectSeq(first.given.rows,
                                            LAMBDA r : Passes(rd.arg.filter, r))]
                /\ out.meta = [written |-> TRUE, rows |-> ReadMetadataCsv(fileMeta)]

=============================================================================
